---- MODULE Spec2Model ----
(***************************************************************************)
(* Model of src/image_generator.py: get_client, generate_image,            *)
(* generate_blog_header_image, generate_vocabulary_card_image and the      *)
(* __main__ block.                                                         *)
(*                                                                         *)
(* Text is a sequence of tokens.  File-name text is spelled character by   *)
(* character (the slug works on characters); the literal pieces of the     *)
(* prompt templates are one token each.  Optional values (None or a        *)
(* value) are records with a "given" field.                                *)
(***************************************************************************)
EXTENDS Integers, Sequences, FiniteSets, TLC

VARIABLES
  GEMINI_API_KEY,   \* config: the key, None or a string
  files,            \* the filesystem: path -> bytes
  files_at_entry,   \* the filesystem when the invocation began
  pc,               \* position of the running invocation
  entry,            \* the function the caller invoked
  args,             \* the arguments the caller passed
  slug,             \* generate_blog_header_image: local slug
  calls,            \* invocations of generate_image: <<[prompt, filename, style]>>
  prompt, filename, style,   \* generate_image: parameters
  full_prompt,      \* generate_image: local full_prompt
  requests,         \* requests sent to the remote service in this invocation
  response,         \* generate_image: local response
  idx,              \* position of the for loop over the parts
  inspected,        \* indices of the parts the loop has tested
  consulted,        \* indices of the parts whose inline_data.data was read
  image_data, output_path, image,   \* generate_image: locals
  save_outcome,     \* what image.save did
  fsOps,            \* filesystem writes of this invocation
  gi_return,        \* how generate_image ended
  result,           \* what the caller of the entry function received
  log               \* printed lines

vars == <<GEMINI_API_KEY, files, files_at_entry, pc, entry, args, slug, calls,
          prompt, filename, style, full_prompt, requests, response, idx,
          inspected, consulted, image_data, output_path, image, save_outcome,
          fsOps, gi_return, result, log>>

----------------------------------------------------------------------------
(* Bounds *)
MaxParts == 2     \* parts in one response
MaxHead  == 1     \* characters before the padding of a generated topic
MaxTail  == 2     \* characters after the padding of a generated topic
MaxPad   == 31    \* length of the padding of a generated topic

----------------------------------------------------------------------------
(* Optional values *)
None == [given |-> FALSE]
Some(v) == [given |-> TRUE, value |-> v]

\* truth value of an Optional[str]: None and "" are false
TruthyStr(o) == o.given /\ o.value # <<>>
\* truth value of an Optional[object]: only None is false
TruthyObj(o) == o.given

----------------------------------------------------------------------------
(* Characters and str methods *)
UpperChars == <<"A","B","C","D","E","F","G","H","I","J","K","L","M",
                "N","O","P","Q","R","S","T","U","V","W","X","Y","Z">>
LowerChars == <<"a","b","c","d","e","f","g","h","i","j","k","l","m",
                "n","o","p","q","r","s","t","u","v","w","x","y","z">>
Digits == {"0","1","2","3","4","5","6","7","8","9"}

\* the class [a-z0-9]
AlnumLower == {LowerChars[i] : i \in 1..26} \cup Digits

LowerChar(c) ==
  IF \E i \in 1..26 : UpperChars[i] = c
    THEN LowerChars[CHOOSE i \in 1..26 : UpperChars[i] = c]
    ELSE c

\* str.lower()
Lower(s) == [i \in 1..Len(s) |-> LowerChar(s[i])]

RECURSIVE DropRun(_)
\* the rest of s after its leading run of characters outside [a-z0-9]
DropRun(s) ==
  IF s = <<>> \/ Head(s) \in AlnumLower THEN s ELSE DropRun(Tail(s))

RECURSIVE ReSubHyphen(_)
\* re.sub(r'[^a-z0-9]+', '-', s)
ReSubHyphen(s) ==
  IF s = <<>> THEN <<>>
  ELSE IF Head(s) \in AlnumLower THEN <<Head(s)>> \o ReSubHyphen(Tail(s))
  ELSE <<"-">> \o ReSubHyphen(DropRun(s))

RECURSIVE LStrip(_)
LStrip(s) == IF s # <<>> /\ Head(s) = "-" THEN LStrip(Tail(s)) ELSE s

RECURSIVE RStrip(_)
RStrip(s) ==
  IF s # <<>> /\ s[Len(s)] = "-" THEN RStrip(SubSeq(s, 1, Len(s) - 1)) ELSE s

\* str.strip('-')
StripHyphens(s) == RStrip(LStrip(s))

SlugMax == 30

\* s[:n]
Truncate(s, n) == SubSeq(s, 1, IF Len(s) < n THEN Len(s) ELSE n)

\* re.sub(r'[^a-z0-9]+', '-', topic.lower()).strip('-')[:30]
slugify(topic) == Truncate(StripHyphens(ReSubHyphen(Lower(topic))), SlugMax)

----------------------------------------------------------------------------
(* Prompts and file names *)
DefaultStyle == <<"modern flat illustration">>
VocabStyle == <<"simple icon illustration">>

\* generate_image: full_prompt
FullPrompt(s, p) ==
  <<"Create a ">> \o s
  \o <<" for a Finnish language learning blog.\n\nImage description: ">> \o p
  \o <<"\n\nRequirements:\n- Clean, professional design suitable for educational content\n- Warm, inviting colors (consider Finnish nature: blues, greens, whites)\n- No text in the image (text will be added separately)\n- Simple composition that works well as a blog header\n- Modern, minimalist aesthetic\n">>

\* generate_blog_header_image: the default prompt built from the topic
DefaultHeaderPrompt(topic) ==
  <<"A warm, inviting illustration representing \"">> \o topic
  \o <<"\" \n        for Finnish language learners. The scene should evoke Finland's \n        culture and lifestyle while being educational and approachable.">>

HeaderPromptDefaultOnly(topic, custom_prompt) == DefaultHeaderPrompt(topic)

\* generate_blog_header_image: if custom_prompt: ... else: ...
HeaderPrompt(topic, custom_prompt) ==
  IF TruthyStr(custom_prompt) THEN custom_prompt.value
  ELSE DefaultHeaderPrompt(topic)

HeaderFilenameNoHyphen(date, s) == date \o s

\* generate_blog_header_image: f"{date}-{slug}"
HeaderFilename(date, s) == date \o <<"-">> \o s

\* generate_vocabulary_card_image: the prompt
VocabPrompt(finnish_word, english_translation) ==
  <<"A simple, clean illustration representing the Finnish word \"">>
  \o finnish_word \o <<"\" \n    (meaning \"">> \o english_translation
  \o <<"\" in English). \n    The image should be iconic and memorable, helping learners associate \n    the visual with the word. No text should be in the image.">>

VocabFilenameSlugged(date, finnish_word) ==
  date \o <<"-","v","o","c","a","b","-">> \o slugify(finnish_word)

\* generate_vocabulary_card_image: f"{date}-vocab-{finnish_word.lower()}"
VocabFilename(date, finnish_word) ==
  date \o <<"-","v","o","c","a","b","-">> \o Lower(finnish_word)

\* config: IMAGES_DIR
IMAGES_DIR == <<"i","m","a","g","e","s">>

\* pathlib: directory / name (an absolute name replaces the directory)
PathJoin(dir, name) ==
  IF name # <<>> /\ name[1] = "/" THEN name ELSE dir \o <<"/">> \o name

OutputPathNoExt(f) == PathJoin(IMAGES_DIR, f)

\* generate_image: IMAGES_DIR / f"{filename}.png"
OutputPath(f) == PathJoin(IMAGES_DIR, f \o <<".png">>)

\* config: IMAGE_MODEL
IMAGE_MODEL == <<"IMAGE_MODEL">>

\* generate_image: the arguments of client.models.generate_content
Request(contents) ==
  [model |-> IMAGE_MODEL, contents |-> contents,
   response_modalities |-> <<"image", "text">>]

\* sub occurs in text as a run of consecutive tokens
Contains(text, sub) ==
  \E i \in 0..(Len(text) - Len(sub)) : SubSeq(text, i + 1, i + Len(sub)) = sub

----------------------------------------------------------------------------
(* Image bytes: <<format, pixels>>, or bytes that are no image *)
ImageFormats == {"PNG", "JPEG"}
EmptyBytes == <<>>
JunkBytes == <<"junk">>
JpegA == <<"JPEG", "A">>
PngB == <<"PNG", "B">>
Bytes == {EmptyBytes, JunkBytes, JpegA, PngB}

\* Image.open(io.BytesIO(b)) identifies the image; otherwise it raises
Decodable(b) == Len(b) = 2 /\ b[1] \in ImageFormats
ImageOpen(b) == [format |-> b[1], pixels |-> b[2]]

\* the bytes image.save(path, "PNG") writes
EncodePNG(img) == <<"PNG", img.pixels>>
\* what a write that failed midway leaves
PartialPNG == <<"PNG">>
OldBytes == <<"PNG", "old">>

----------------------------------------------------------------------------
(* Response parts *)
TextPart == [has_inline_data |-> TRUE, inline_data |-> None, text |-> Some(<<"caption">>)]
\* a part object without the attribute inline_data
BarePart == [has_inline_data |-> FALSE, inline_data |-> None, text |-> Some(<<"caption">>)]
Blob(b) == [data |-> b, mime_type |-> <<"image/*">>]
InlinePart(b) == [has_inline_data |-> TRUE, inline_data |-> Some(Blob(b)), text |-> None]
Parts == {TextPart, BarePart} \cup {InlinePart(b) : b \in Bytes}

HasInlineDataNonEmpty(part) ==
  part.has_inline_data /\ TruthyObj(part.inline_data)
  /\ part.inline_data.value.data # <<>>

\* hasattr(part, 'inline_data') and part.inline_data
HasInlineData(part) == part.has_inline_data /\ TruthyObj(part.inline_data)

SeqsUpTo(S, n) == UNION {[1..k -> S] : k \in 0..n}

Unset == [kind |-> "unset"]
\* what client.models.generate_content returns or raises
RemoteOutcomes ==
  {[kind |-> "raise"], [kind |-> "no_candidates"], [kind |-> "parts_none"]}
  \cup {[kind |-> "parts", parts |-> ps] : ps \in SeqsUpTo(Parts, MaxParts)}

\* what image.save does
SaveOutcomes == {"ok", "open_error", "write_error_partial", "write_error_removed"}

----------------------------------------------------------------------------
(* How a call ends *)
Pending == [tag |-> "pending"]
RetNone == [tag |-> "None"]
RetPath(p) == [tag |-> "Path", path |-> p]
Raised(e) == [tag |-> "Raised", exc |-> e]

----------------------------------------------------------------------------
(* Inputs *)
Date1 == <<"2","0","2","6","-","0","1","-","1","4">>
TopicGreetings ==
  <<"F","i","n","n","i","s","h"," ","G","r","e","e","t","i","n","g","s">>
StemGreetings ==
  <<"2","0","2","6","-","0","1","-","1","4","-",
    "f","i","n","n","i","s","h","-","g","r","e","e","t","i","n","g","s">>
WordKiitos == <<"k","i","i","t","o","s">>
StemKiitos ==
  <<"2","0","2","6","-","0","1","-","1","4","-","v","o","c","a","b","-",
    "k","i","i","t","o","s">>

\* __main__: custom_prompt
MainCustomPrompt ==
  <<"A friendly illustration showing people greeting each other in Finland, with a cozy cafe in the background during winter">>

Keys == {None, Some(<<>>), Some(<<"key">>)}
Dates == {Date1, <<"d">>}
Topics == {TopicGreetings, <<"!","!">>, [i \in 1..29 |-> "a"] \o <<" ","b">>}
CustomPrompts(topic) ==
  {None, Some(<<>>), Some(MainCustomPrompt), Some(DefaultHeaderPrompt(topic))}
Words == {WordKiitos, <<"H","e","i"," ","H","e","i","!">>}
Translations == {<<"thanks">>}
Prompts == {<<"a red barn">>, <<>>}
Filenames == {<<"t","e","s","t">>, <<"/","t","m","p","/","x">>}
Styles == {DefaultStyle, <<"watercolor">>}

EmptyFS == [p \in {} |-> OldBytes]
ExistingFS ==
  [p \in {OutputPath(StemGreetings), OutputPath(<<"t","e","s","t">>),
          OutputPath(StemKiitos)} |-> OldBytes]

\* path p holds bytes b, the other files are as in fs
WriteFile(fs, p, b) ==
  [q \in DOMAIN fs \cup {p} |-> IF q = p THEN b ELSE fs[q]]

----------------------------------------------------------------------------
(* Initial state: configuration loaded, no call in progress *)
Idle ==
  /\ pc = "idle" /\ entry = "none" /\ args = [fn |-> "none"]
  /\ slug = <<>> /\ calls = <<>>
  /\ prompt = <<>> /\ filename = <<>> /\ style = <<>> /\ full_prompt = <<>>
  /\ requests = <<>> /\ response = Unset /\ idx = 0
  /\ inspected = <<>> /\ consulted = <<>>
  /\ image_data = <<>> /\ output_path = <<>> /\ image = None
  /\ save_outcome = "none" /\ fsOps = <<>>
  /\ gi_return = Pending /\ result = Pending /\ log = <<>>

Init ==
  /\ GEMINI_API_KEY \in Keys
  /\ files \in {EmptyFS, ExistingFS}
  /\ files_at_entry = files
  /\ Idle

frame == <<full_prompt, requests, response, idx, inspected, consulted,
           image_data, output_path, image, save_outcome, fsOps, gi_return,
           result>>
config == <<GEMINI_API_KEY, files, files_at_entry>>
callerVars == <<entry, args, slug, calls, prompt, filename, style>>

----------------------------------------------------------------------------
(* Entry points *)

\* the caller invokes generate_image(p, f, style=s)
CallGenerateImage ==
  \E p \in Prompts, f \in Filenames, s \in Styles :
    /\ pc = "idle"
    /\ entry' = "generate_image"
    /\ args' = [fn |-> "generate_image", prompt |-> p, filename |-> f, style |-> s]
    /\ prompt' = p /\ filename' = f /\ style' = s
    /\ calls' = Append(calls, [prompt |-> p, filename |-> f, style |-> s])
    /\ pc' = "get_client"
    /\ UNCHANGED <<config, slug, frame, log>>

\* generate_blog_header_image(topic, date, custom_prompt) up to its call of
\* generate_image(prompt, filename)
HeaderBody(name, topic, date, custom_prompt) ==
  /\ pc = "idle"
  /\ entry' = name
  /\ args' = [fn |-> name, topic |-> topic, date |-> date,
              custom_prompt |-> custom_prompt]
  /\ slug' = slugify(topic)
  /\ prompt' = HeaderPrompt(topic, custom_prompt)
  /\ filename' = HeaderFilename(date, slug')
  /\ style' = DefaultStyle
  /\ calls' = Append(calls, [prompt |-> prompt', filename |-> filename',
                             style |-> style'])
  /\ pc' = "get_client"
  /\ UNCHANGED <<config, frame>>

CallBlogHeader ==
  \E topic \in Topics, date \in Dates :
    \E custom_prompt \in CustomPrompts(topic) :
      /\ HeaderBody("generate_blog_header_image", topic, date, custom_prompt)
      /\ UNCHANGED log

\* the __main__ block, up to the same call
Main ==
  /\ HeaderBody("__main__", TopicGreetings, Date1, Some(MainCustomPrompt))
  /\ log' = Append(log, <<"Testing image generation...">>)

\* generate_vocabulary_card_image(finnish_word, english_translation, date) up
\* to its call of generate_image(prompt, filename, style=...)
CallVocabularyCard ==
  \E w \in Words, t \in Translations, date \in Dates :
    /\ pc = "idle"
    /\ entry' = "generate_vocabulary_card_image"
    /\ args' = [fn |-> "generate_vocabulary_card_image", finnish_word |-> w,
                english_translation |-> t, date |-> date]
    /\ prompt' = VocabPrompt(w, t)
    /\ filename' = VocabFilename(date, w)
    /\ style' = VocabStyle
    /\ calls' = Append(calls, [prompt |-> prompt', filename |-> filename',
                               style |-> style'])
    /\ pc' = "get_client"
    /\ UNCHANGED <<config, slug, frame, log>>

----------------------------------------------------------------------------
(* generate_image *)

GetClientNoCheck ==
  /\ pc = "get_client"
  /\ full_prompt' = FullPrompt(style, prompt)
  /\ pc' = "request"
  /\ UNCHANGED <<config, callerVars, requests, response, idx, inspected,
                 consulted, image_data, output_path, image, save_outcome,
                 fsOps, gi_return, result, log>>

\* client = get_client(), outside the try block, then full_prompt
GetClient ==
  /\ pc = "get_client"
  /\ IF ~TruthyStr(GEMINI_API_KEY)
       THEN /\ gi_return' = Raised("ValueError")
            /\ pc' = "gi_done"
            /\ UNCHANGED full_prompt
       ELSE /\ full_prompt' = FullPrompt(style, prompt)
            /\ pc' = "request"
            /\ UNCHANGED gi_return
  /\ UNCHANGED <<config, callerVars, requests, response, idx, inspected,
                 consulted, image_data, output_path, image, save_outcome,
                 fsOps, result, log>>

ExceptHandlerReraise(e) ==
  /\ gi_return' = Raised(e)
  /\ log' = log
  /\ pc' = "gi_done"

\* except Exception as e: print(...); return None
ExceptHandler(e) ==
  /\ gi_return' = RetNone
  /\ log' = Append(log, <<"Image generation failed: ", e>>)
  /\ pc' = "gi_done"

GenerateContentRetry ==
  /\ pc = "request"
  /\ \E o \in RemoteOutcomes :
       IF o.kind = "raise"
         THEN /\ requests' = requests \o <<Request(full_prompt), Request(full_prompt)>>
              /\ ExceptHandler("ConnectionError")
              /\ UNCHANGED response
         ELSE /\ requests' = Append(requests, Request(full_prompt))
              /\ response' = o
              /\ pc' = "parts"
              /\ UNCHANGED <<gi_return, log>>
  /\ UNCHANGED <<config, callerVars, full_prompt, idx, inspected, consulted,
                 image_data, output_path, image, save_outcome, fsOps, result>>

GenerateContentTouch ==
  /\ pc = "request"
  /\ requests' = Append(requests, Request(full_prompt))
  /\ files' = WriteFile(files, OutputPath(filename), <<>>)
  /\ \E o \in RemoteOutcomes :
       IF o.kind = "raise"
         THEN ExceptHandler("ConnectionError") /\ UNCHANGED response
         ELSE response' = o /\ pc' = "parts" /\ UNCHANGED <<gi_return, log>>
  /\ UNCHANGED <<GEMINI_API_KEY, files_at_entry, callerVars, full_prompt, idx,
                 inspected, consulted, image_data, output_path, image,
                 save_outcome, fsOps, result>>

\* response = client.models.generate_content(...)
GenerateContent ==
  /\ pc = "request"
  /\ requests' = Append(requests, Request(full_prompt))
  /\ \E o \in RemoteOutcomes :
       IF o.kind = "raise"
         THEN ExceptHandler("ConnectionError") /\ UNCHANGED response
         ELSE response' = o /\ pc' = "parts" /\ UNCHANGED <<gi_return, log>>
  /\ UNCHANGED <<config, callerVars, full_prompt, idx, inspected, consulted,
                 image_data, output_path, image, save_outcome, fsOps, result>>

\* response.candidates[0].content.parts, the iterable of the for loop
ReadParts ==
  /\ pc = "parts"
  /\ IF response.kind = "no_candidates"
       THEN ExceptHandler("IndexError") /\ UNCHANGED idx
     ELSE IF response.kind = "parts_none"
       THEN ExceptHandler("TypeError") /\ UNCHANGED idx
     ELSE idx' = 1 /\ pc' = "loop" /\ UNCHANGED <<gi_return, log>>
  /\ UNCHANGED <<config, callerVars, full_prompt, requests, response,
                 inspected, consulted, image_data, output_path, image,
                 save_outcome, fsOps, result>>

\* one iteration of the for loop up to output_path, or its exhaustion
LoopPart ==
  /\ pc = "loop"
  /\ IF idx > Len(response.parts)
       THEN /\ log' = Append(log, <<"No image data in response">>)
            /\ gi_return' = RetNone
            /\ pc' = "gi_done"
            /\ UNCHANGED <<idx, inspected, consulted, image_data, output_path>>
     ELSE /\ inspected' = Append(inspected, idx)
          /\ IF HasInlineData(response.parts[idx])
               THEN /\ image_data' = response.parts[idx].inline_data.value.data
                    /\ consulted' = Append(consulted, idx)
                    /\ output_path' = OutputPath(filename)
                    /\ pc' = "decode"
                    /\ UNCHANGED idx
               ELSE /\ idx' = idx + 1
                    /\ UNCHANGED <<pc, consulted, image_data, output_path>>
          /\ UNCHANGED <<gi_return, log>>
  /\ UNCHANGED <<config, callerVars, full_prompt, requests, response, image,
                 save_outcome, fsOps, result>>

\* image = Image.open(io.BytesIO(image_data))
OpenImage ==
  /\ pc = "decode"
  /\ IF Decodable(image_data)
       THEN /\ image' = Some(ImageOpen(image_data))
            /\ pc' = "save"
            /\ UNCHANGED <<gi_return, log>>
       ELSE ExceptHandler("UnidentifiedImageError") /\ UNCHANGED image
  /\ UNCHANGED <<config, callerVars, full_prompt, requests, response, idx,
                 inspected, consulted, image_data, output_path, save_outcome,
                 fsOps, result>>

\* image.save(output_path, "PNG"); print(...); return output_path
SaveImage ==
  /\ pc = "save"
  /\ \E o \in SaveOutcomes :
       /\ save_outcome' = o
       /\ IF o = "ok"
            THEN /\ files' = WriteFile(files, output_path, EncodePNG(image.value))
                 /\ fsOps' = Append(fsOps, [path |-> output_path, complete |-> TRUE])
                 /\ log' = Append(log, <<"Image saved to: ", output_path>>)
                 /\ gi_return' = RetPath(output_path)
                 /\ pc' = "gi_done"
          ELSE IF o = "open_error"
            THEN UNCHANGED <<files, fsOps>> /\ ExceptHandler("OSError")
          ELSE IF o = "write_error_partial" \/ output_path \in DOMAIN files
            THEN /\ files' = WriteFile(files, output_path, PartialPNG)
                 /\ fsOps' = Append(fsOps, [path |-> output_path, complete |-> FALSE])
                 /\ ExceptHandler("OSError")
          ELSE /\ UNCHANGED files
               /\ fsOps' = Append(fsOps, [path |-> output_path, complete |-> FALSE])
               /\ ExceptHandler("OSError")
  /\ UNCHANGED <<GEMINI_API_KEY, files_at_entry, callerVars, full_prompt,
                 requests, response, idx, inspected, consulted, image_data,
                 output_path, image, result>>

\* generate_image has ended: the helper returns what it returned (an
\* exception passes through), and __main__ prints the outcome
ReturnToCaller ==
  /\ pc = "gi_done"
  /\ result' = gi_return
  /\ log' = IF entry # "__main__" \/ gi_return.tag = "Raised" THEN log
            ELSE IF gi_return.tag = "Path"
              THEN Append(log, <<"Success! Image saved to: ", gi_return.path>>)
            ELSE Append(log, <<"Image generation failed">>)
  /\ pc' = "done"
  /\ UNCHANGED <<config, callerVars, full_prompt, requests, response, idx,
                 inspected, consulted, image_data, output_path, image,
                 save_outcome, fsOps, gi_return>>

Next ==
  \/ CallGenerateImage
  \/ CallBlogHeader
  \/ CallVocabularyCard
  \/ Main
  \/ GetClient
  \/ GenerateContent
  \/ ReadParts
  \/ LoopPart
  \/ OpenImage
  \/ SaveImage
  \/ ReturnToCaller

Spec == Init /\ [][Next]_vars

TypeOK == pc \in {"idle", "get_client", "request", "parts", "loop", "decode",
                  "save", "gi_done", "done"}

----------------------------------------------------------------------------
(* The slug over generated topics: a short head, a run of "a", a short tail *)
SlugAlphabet == {"a", "B", "7", "-", " "}
GeneratedTopics ==
  {h \o [i \in 1..k |-> "a"] \o t :
     h \in SeqsUpTo(SlugAlphabet, MaxHead), k \in 0..MaxPad,
     t \in SeqsUpTo(SlugAlphabet, MaxTail)}

CallBlogHeaderGenerated ==
  \E topic \in GeneratedTopics :
    /\ HeaderBody("generate_blog_header_image", topic, Date1, None)
    /\ UNCHANGED log

NextSlug == CallBlogHeaderGenerated

SpecSlug == Init /\ [][NextSlug]_vars

----------------------------------------------------------------------------
(* Claims *)

Returned == pc \in {"gi_done", "done"}
IsHeader == entry \in {"generate_blog_header_image", "__main__"}
KeyConfigured == TruthyStr(GEMINI_API_KEY)
\* the remote call raised
NetworkRaised == Returned /\ requests # <<>> /\ response = Unset
\* reading the parts of the response raised
ReadRaised == Returned /\ response.kind \in {"no_candidates", "parts_none"}
\* decoding the bytes raised
DecodeRaised == Returned /\ consulted # <<>> /\ ~Decodable(image_data)
\* writing the file raised
WriteRaised == save_outcome \in {"open_error", "write_error_partial", "write_error_removed"}

\* C1: with a configured key, an exception of the remote call, of reading the
\* parts, of decoding or of writing never leaves generate_image: the call
\* returns None in each of these cases, and the caller receives None too.
C1_ExceptionsBecomeNone ==
  KeyConfigured =>
    /\ gi_return.tag # "Raised" /\ result.tag # "Raised"
    /\ (NetworkRaised \/ ReadRaised \/ DecodeRaised \/ WriteRaised)
         => /\ gi_return = RetNone
            /\ (pc = "done" => result = RetNone)

C1_Witness ==
  /\ pc = "done" /\ KeyConfigured /\ WriteRaised /\ result = RetNone
  /\ files # files_at_entry

\* C2: with a missing or empty key, get_client raises the configuration error
\* before any request: the error reaches the caller of each entry function, no
\* request is issued and no file is written.
C2_MissingKeyRaisesFirst ==
  ~KeyConfigured =>
    /\ requests = <<>> /\ fsOps = <<>> /\ files = files_at_entry
    /\ Returned => gi_return = Raised("ValueError")
    /\ pc = "done" => result = Raised("ValueError")
    /\ pc \in {"idle", "get_client", "gi_done", "done"}

C2_Witness ==
  /\ pc = "done" /\ GEMINI_API_KEY = Some(<<>>)
  /\ entry = "generate_vocabulary_card_image"
  /\ result = Raised("ValueError") /\ requests = <<>>

\* C3: the filesystem is touched only after a response in which a part with
\* inline data was found; when the remote call raises or the response has no
\* part with binary data, the call returns None and no file is created or
\* modified.
C3_NoFileWithoutImagePart ==
  /\ (fsOps # <<>> \/ files # files_at_entry) =>
       /\ response.kind = "parts"
       /\ consulted # <<>>
       /\ LET p == response.parts[consulted[1]]
          IN  p.has_inline_data /\ p.inline_data.given
  /\ (NetworkRaised
      \/ (Returned /\ response.kind = "parts"
          /\ \A i \in 1..Len(response.parts) :
               LET p == response.parts[i]
               IN  ~(p.has_inline_data /\ p.inline_data.given
                     /\ p.inline_data.value.data # <<>>)))
       => /\ gi_return = RetNone
          /\ fsOps = <<>>
          /\ files = files_at_entry

C3_Witness ==
  /\ pc = "done" /\ NetworkRaised /\ result = RetNone
  /\ PathJoin(IMAGES_DIR, filename \o <<".png">>) \in DOMAIN files
  /\ files = files_at_entry

\* C4 as stated: whenever the response has a part with non-empty inline data,
\* exactly one file is written at <images_dir>/<stem>.png and that path is
\* returned.
C4_Original ==
  (Returned /\ response.kind = "parts"
   /\ \E i \in 1..Len(response.parts) :
        LET p == response.parts[i]
        IN  p.has_inline_data /\ p.inline_data.given
            /\ p.inline_data.value.data # <<>>)
    => LET P == IMAGES_DIR \o <<"/">> \o filename \o <<".png">>
       IN  /\ gi_return = RetPath(P)
           /\ fsOps = <<[path |-> P, complete |-> TRUE]>>

\* C4 amended: when the bytes of the part that was consulted decode as an
\* image and the write succeeds, exactly one file is written, at
\* IMAGES_DIR / "<stem>.png" with the PNG encoding of that image, every other
\* file is left as it was, and that path is returned.
C4_WritesOneFile ==
  (Returned /\ consulted # <<>> /\ Decodable(image_data) /\ save_outcome = "ok")
    => LET P == PathJoin(IMAGES_DIR, filename \o <<".png">>)
           data == response.parts[consulted[1]].inline_data.value.data
       IN  /\ gi_return = RetPath(P)
           /\ fsOps = <<[path |-> P, complete |-> TRUE]>>
           /\ files = WriteFile(files_at_entry, P, EncodePNG(ImageOpen(data)))
           /\ (filename = <<>> \/ filename[1] # "/")
                => P = IMAGES_DIR \o <<"/">> \o filename \o <<".png">>

C4_Witness ==
  /\ pc = "done" /\ save_outcome = "ok" /\ result.tag = "Path"
  /\ image_data = JpegA /\ Len(response.parts) = 2 /\ consulted = <<2>>
  /\ files # files_at_entry

\* C5: the slug of every topic consists of lowercase alphanumerics and single
\* hyphens, has no leading and no trailing hyphen, and has at most 30
\* characters.
C5_SlugWellFormed ==
  IsHeader =>
    /\ Len(slug) <= 30
    /\ \A i \in 1..Len(slug) : slug[i] \in AlnumLower \cup {"-"}
    /\ \A i \in 1..(Len(slug) - 1) : ~(slug[i] = "-" /\ slug[i + 1] = "-")
    /\ slug # <<>> => slug[1] # "-" /\ slug[Len(slug)] # "-"

\* C6 as stated: when a custom prompt is supplied, the text of the request is
\* exactly the custom prompt and the default header template is absent from it.
C6_Original ==
  (IsHeader /\ args.custom_prompt.given) =>
    \A i \in 1..Len(requests) :
      /\ requests[i].contents = args.custom_prompt.value
      /\ ~Contains(requests[i].contents, DefaultHeaderPrompt(args.topic))

\* C6 amended: when a non-empty custom prompt is supplied, the prompt handed to
\* generate_image is exactly the custom prompt; the text of the request is
\* generate_image's fixed template around it, and holds the default header
\* template only if the custom prompt itself does.
C6_CustomPromptVerbatim ==
  (IsHeader /\ args.custom_prompt.given /\ args.custom_prompt.value # <<>>) =>
    LET custom == args.custom_prompt.value
    IN  /\ prompt = custom
        /\ Len(calls) = 1 /\ calls[1].prompt = custom
        /\ \A i \in 1..Len(requests) :
             /\ requests[i].contents = FullPrompt(DefaultStyle, custom)
             /\ Contains(requests[i].contents, custom)
             /\ Contains(requests[i].contents, DefaultHeaderPrompt(args.topic))
                  => Contains(custom, DefaultHeaderPrompt(args.topic))

C6_Witness ==
  /\ entry = "generate_blog_header_image" /\ pc = "done"
  /\ args.custom_prompt = Some(MainCustomPrompt)
  /\ Len(requests) = 1
  /\ ~Contains(requests[1].contents, DefaultHeaderPrompt(args.topic))

\* C7: an invocation issues at most one request, and exactly one once a
\* configured key let it reach the remote call; the request carries the model
\* identifier, the prompt text and the modalities image and text; no second
\* request follows a failed or image-less response.
C7_OneRequest ==
  /\ Len(calls) <= 1
  /\ Len(requests) <= 1
  /\ (KeyConfigured /\ pc \in {"parts", "loop", "decode", "save", "gi_done", "done"})
       => Len(requests) = 1
  /\ \A i \in 1..Len(requests) :
       /\ requests[i].model = IMAGE_MODEL
       /\ requests[i].response_modalities = <<"image", "text">>
       /\ Contains(requests[i].contents, prompt)
       /\ Contains(requests[i].contents, style)

C7_Witness ==
  /\ pc = "done" /\ KeyConfigured /\ NetworkRaised /\ Len(requests) = 1
  /\ entry = "generate_vocabulary_card_image"

\* C8: generate_blog_header_image calls generate_image once, with the stem
\* date + "-" + slug(topic) and the default style, whatever the custom prompt;
\* date "2026-01-14" and topic "Finnish Greetings" give
\* "2026-01-14-finnish-greetings".
C8_HeaderStem ==
  IsHeader =>
    /\ Len(calls) = 1
    /\ calls[1].filename = args.date \o <<"-">> \o slugify(args.topic)
    /\ calls[1].style = <<"modern flat illustration">>
    /\ filename = calls[1].filename /\ style = calls[1].style
    /\ (args.date = Date1 /\ args.topic = TopicGreetings)
         => calls[1].filename = StemGreetings

C8_Witness ==
  /\ entry = "generate_blog_header_image" /\ pc = "done"
  /\ args.custom_prompt = None /\ filename = StemGreetings

\* C9: generate_vocabulary_card_image calls generate_image once, with the stem
\* date + "-vocab-" + the word lowercased (not slugified, not truncated) and
\* the style "simple icon illustration", and returns what that call returned.
C9_VocabStem ==
  entry = "generate_vocabulary_card_image" =>
    /\ Len(calls) = 1
    /\ calls[1].filename =
         args.date \o <<"-","v","o","c","a","b","-">> \o Lower(args.finnish_word)
    /\ calls[1].style = <<"simple icon illustration">>
    /\ filename = calls[1].filename /\ style = calls[1].style
    /\ (args.date = Date1 /\ args.finnish_word = WordKiitos)
         => calls[1].filename = StemKiitos
    /\ pc = "done" => result = gi_return

C9_Witness ==
  /\ entry = "generate_vocabulary_card_image" /\ pc = "done"
  /\ args.finnish_word = <<"H","e","i"," ","H","e","i","!">>
  /\ result.tag = "Path"

\* C10 as stated: the part consulted is the first one whose inline data is
\* non-empty; parts with empty inline data before it are skipped.
C10_Original ==
  (Returned /\ response.kind = "parts") =>
    LET NonEmpty(i) ==
          LET p == response.parts[i]
          IN  p.has_inline_data /\ p.inline_data.given
              /\ p.inline_data.value.data # <<>>
    IN  \A i \in 1..Len(response.parts) :
          (NonEmpty(i) /\ \A j \in 1..(i - 1) : ~NonEmpty(j))
            => consulted = <<i>>

\* C10 amended: the parts are tested in order and the only part consulted is
\* the first one whose inline_data is present, empty bytes included; text
\* parts and parts without inline data before it are skipped, the file holds
\* the PNG encoding of that part's image, and no later part is tested, also
\* when decoding or writing fails, where the result is None.
C10_FirstInlinePartOnly ==
  response.kind = "parts" =>
    LET Present(i) ==
          LET p == response.parts[i]
          IN  p.has_inline_data /\ p.inline_data.given
    IN  /\ \A k \in 1..Len(inspected) : inspected[k] = k
        /\ \A k \in 1..(Len(inspected) - 1) : ~Present(k)
        /\ Len(consulted) <= 1
        /\ consulted # <<>> =>
             /\ consulted[1] = Len(inspected)
             /\ Present(consulted[1])
             /\ image_data = response.parts[consulted[1]].inline_data.value.data
        /\ Returned =>
             \A i \in 1..Len(response.parts) :
               (Present(i) /\ \A j \in 1..(i - 1) : ~Present(j))
                 => consulted = <<i>>
        /\ (\E k \in 1..Len(fsOps) : fsOps[k].complete) =>
             files[output_path] = EncodePNG(ImageOpen(
               response.parts[consulted[1]].inline_data.value.data))
        /\ (Returned /\ consulted # <<>>
            /\ (~Decodable(image_data) \/ save_outcome # "ok"))
             => gi_return = RetNone

C10_Witness ==
  /\ pc = "done" /\ response.kind = "parts" /\ Len(response.parts) = 2
  /\ response.parts[1] = InlinePart(EmptyBytes)
  /\ response.parts[2] = InlinePart(PngB)
  /\ consulted = <<1>> /\ inspected = <<1>> /\ result = RetNone

====
